---- MODULE Spec2Model ----
(***************************************************************************)
(* ParkingCapacityEstimator (backend/parking_time_estimators/estimator.py). *)
(*                                                                         *)
(* Units.  Probabilities are fixed-point numbers in units of 1e-4, so the  *)
(* literal 1 of `1 - p_occupied` is ONE = 10000, 1e-3 is 10 and 0.05 is    *)
(* 500.  Times are exact rationals [n, d] (n/d, d > 0, lowest terms); the  *)
(* module constants 1.2, 2.5 and 10 are kept in tenths (12, 25, 100).      *)
(* hour_sin / hour_cos are in units of 1e-3.                               *)
(***************************************************************************)
EXTENDS Integers, Sequences, FiniteSets, TLC

VARIABLES source, est, handle, thr, last

vars == <<source, est, handle, thr, last>>

(***************************************************************************)
(* Module constants, estimator.py lines 8-10 (tenths) and the literals of  *)
(* predict_search_time, lines 88-95 (units of 1e-4).                       *)
(***************************************************************************)
FIXED_SEARCH_TIME == 25
TIME_PER_SPOT == 12
TIME_PENALTY == 100
ONE == 10000
FULL_LOT_P_FREE == 10
CONGESTED_P_FREE == 500

(***************************************************************************)
(* Exact rational arithmetic standing for Python's float expressions.      *)
(***************************************************************************)
Abs(x) == IF x < 0 THEN -x ELSE x

RECURSIVE Gcd(_, _)
Gcd(a, b) == IF b = 0 THEN a ELSE Gcd(b, a % b)

Rat(n, d) ==
    LET g == Gcd(Abs(n), Abs(d))
        s == IF d < 0 THEN -1 ELSE 1
    IN  [n |-> (s * n) \div g, d |-> (s * d) \div g]

RAdd(a, b) == Rat(a.n * b.d + b.n * a.d, a.d * b.d)
RMul(a, b) == Rat(a.n * b.n, a.d * b.d)
RLeq(a, b) == a.n * b.d <= b.n * a.d
Tenths(k) == Rat(k, 10)
Prob(k) == Rat(k, ONE)

\* A raised exception, as a value; IsExc tells it from a number.
Exc(name) == [exc |-> name]
IsExc(v) == "exc" \in DOMAIN v

\* Python's `1 / x` on floats: raises ZeroDivisionError when x = 0.
Reciprocal(x) == IF x.n = 0 THEN Exc("ZeroDivisionError") ELSE Rat(x.d, x.n)

(***************************************************************************)
(* np.sin / np.cos of 2*pi*num/den, tabulated per 1/24 turn in units of    *)
(* 1e-3 (every angle the model forms is a multiple of 1/24 turn).          *)
(***************************************************************************)
SinTable ==
    <<0, 259, 500, 707, 866, 966, 1000, 966, 866, 707, 500, 259,
      0, -259, -500, -707, -866, -966, -1000, -966, -866, -707, -500, -259>>

CosTable ==
    <<1000, 966, 866, 707, 500, 259, 0, -259, -500, -707, -866, -966,
      -1000, -966, -866, -707, -500, -259, 0, 259, 500, 707, 866, 966>>

np_sin(num, den) == SinTable[(((24 * num) \div den) % 24) + 1]
np_cos(num, den) == CosTable[(((24 * num) \div den) % 24) + 1]

(***************************************************************************)
(* Feature engineering.  _load_and_train computes the cyclical columns on  *)
(* the data frame (lines 27-28) and selects `features` (lines 30-39);      *)
(* predict computes them on the scalar hour (lines 67-68) and builds the   *)
(* one-row frame X_new (lines 70-81).                                      *)
(***************************************************************************)
features ==
    <<"day_type", "total_capacity", "latitude", "longitude", "hour_sin", "hour_cos">>

target == "occupancy_rate"

Range(s) == {s[i] : i \in DOMAIN s}

TrainHourSin(hour) == np_sin(hour, 24)
TrainHourCos(hour) == np_cos(hour, 24)

\* One row of df after lines 27-28: the raw columns plus hour_sin, hour_cos.
TrainEngineer(row) ==
    [c \in (DOMAIN row) \cup {"hour_sin", "hour_cos"} |->
        IF c = "hour_sin" THEN TrainHourSin(row.hour)
        ELSE IF c = "hour_cos" THEN TrainHourCos(row.hour)
        ELSE row[c]]

\* df[features] on one row (line 39).
TrainSelect(row) == [c \in Range(features) |-> row[c]]

\* A half-day period in the query transform only.
QueryHourSin_period12(hour) == np_sin(hour, 12)

QueryHourSin(hour) == np_sin(hour, 24)
QueryHourCos(hour) == np_cos(hour, 24)

\* X_new of predict (lines 70-81), one row.
QueryFrame(day_type, hour, total_capacity, latitude, longitude) ==
    [day_type |-> day_type,
     total_capacity |-> total_capacity,
     latitude |-> latitude,
     longitude |-> longitude,
     hour_sin |-> QueryHourSin(hour),
     hour_cos |-> QueryHourCos(hour)]

(***************************************************************************)
(* ColumnTransformer: OneHotEncoder(handle_unknown="ignore") on day_type,  *)
(* passthrough of the five numeric columns (lines 42-51).  The fitted      *)
(* vocabulary is the sorted sequence of the distinct day_type values seen. *)
(***************************************************************************)
DayTypeOrder == <<"HOL", "SA", "SU", "WD">>

\* The encoder's default, handle_unknown="error".
HANDLE_UNKNOWN_default == "error"

HANDLE_UNKNOWN == "ignore"

NumericColumns ==
    <<"total_capacity", "latitude", "longitude", "hour_sin", "hour_cos">>

FitVocabulary(X) ==
    LET seen == {X[i].day_type : i \in DOMAIN X}
    IN  SelectSeq(DayTypeOrder, LAMBDA d : d \in seen)

OneHot(vocabulary, day_type) ==
    [i \in DOMAIN vocabulary |-> IF vocabulary[i] = day_type THEN 1 ELSE 0]

Passthrough(row) == [i \in DOMAIN NumericColumns |-> row[NumericColumns[i]]]

\* ColumnTransformer.transform on one row: [ok, v]; an unknown category
\* raises unless handle_unknown = "ignore".
Transform(preprocessor, row) ==
    IF row.day_type \notin Range(preprocessor.vocabulary)
       /\ preprocessor.handle_unknown # "ignore"
    THEN [ok |-> FALSE, v |-> Exc("ValueError")]
    ELSE [ok |-> TRUE,
          v |-> OneHot(preprocessor.vocabulary, row.day_type) \o Passthrough(row)]

(***************************************************************************)
(* RandomForestRegressor(n_estimators=300, max_depth=12, random_state=42), *)
(* lines 58-60.  The library's ensemble is represented by ModelTrees trees: *)
(* tree k is grown on a bootstrap sample drawn from the seeded generator   *)
(* and predicts the mean target of the sample rows nearest to the query;   *)
(* the forest predicts the mean over its trees.                            *)
(***************************************************************************)
N_ESTIMATORS == 300
MAX_DEPTH == 12
RANDOM_STATE == 42

ModelTrees == 3

\* random_state left unset: every construction seeds itself.
random_state_unset(e) == RANDOM_STATE + (IF e = "a" THEN 0 ELSE 1)

random_state(e) == RANDOM_STATE

RECURSIVE SumSeq(_)
SumSeq(s) == IF s = <<>> THEN 0 ELSE Head(s) + SumSeq(Tail(s))

RECURSIVE SumOver(_, _)
SumOver(S, f) ==
    IF S = {} THEN 0
    ELSE LET x == CHOOSE x \in S : TRUE IN f[x] + SumOver(S \ {x}, f)

Distance(a, b) == SumSeq([i \in DOMAIN a |-> Abs(a[i] - b[i])])

\* n draws with replacement from the generator seeded for tree k.
Bootstrap(seed, k, n) ==
    {((((seed * k + j) * (seed + j * k)) % (n + k)) % n) + 1 : j \in 1..n}

TreePredict(forest, k, x) ==
    LET n == Len(forest.y)
        sample == Bootstrap(forest.random_state, k, n)
        dist == [i \in sample |-> Distance(forest.X[i], x)]
        best == CHOOSE d \in Range(dist) : \A d2 \in Range(dist) : d <= d2
        leaf == {i \in sample : dist[i] = best}
    IN  SumOver(leaf, [i \in leaf |-> forest.y[i]]) \div Cardinality(leaf)

ForestPredict(forest, x) ==
    SumSeq([k \in 1..ModelTrees |-> TreePredict(forest, k, x)]) \div ModelTrees

ForestFit(seed, X, y) ==
    [n_estimators |-> N_ESTIMATORS, max_depth |-> MAX_DEPTH,
     random_state |-> seed, X |-> X, y |-> y]

\* self.model.predict(X_new)[0] on a one-row frame (line 83): [ok, v].  The
\* pipeline's first step is the object self.preprocessor also names.
PipelinePredict(self, X_new) ==
    IF self.model.state # "fitted" \/ self.preprocessor.state # "fitted"
    THEN [ok |-> FALSE,
          v |-> Exc(IF self.model.state = "None" THEN "AttributeError"
                    ELSE "NotFittedError")]
    ELSE LET t == Transform(self.preprocessor, X_new)
         IN  IF t.ok
             THEN [ok |-> TRUE, v |-> ForestPredict(self.model.regressor, t.v)]
             ELSE t

(***************************************************************************)
(* predict_search_time after the call of predict, lines 88-98.             *)
(***************************************************************************)
PFree(p_occupied) == ONE - p_occupied

\* The fallback guarding only negative p_free.
IsFullLot_negative(p_free) == p_free < 0

\* The fallback guarding only |p_free| near zero.
IsFullLot_abs(p_free) == Abs(p_free) < FULL_LOT_P_FREE

IsFullLot(p_free) == p_free < FULL_LOT_P_FREE

\* The penalty threshold taken inclusively.
IsCongested_inclusive(p_free) == p_free <= CONGESTED_P_FREE

IsCongested(p_free) == p_free < CONGESTED_P_FREE

\* Lines 90-93: a number, or the exception of `1 / p_free`.
expected_spots(p_free, total_capacity) ==
    IF IsFullLot(p_free) THEN Rat(total_capacity * 2, 1)
    ELSE Reciprocal(Prob(p_free))

\* Lines 94-98.
total_time(p_free, total_capacity) ==
    LET spots == expected_spots(p_free, total_capacity)
    IN  IF IsExc(spots) THEN spots
        ELSE LET base == RAdd(RMul(spots, Tenths(TIME_PER_SPOT)),
                              Tenths(FIXED_SEARCH_TIME))
             IN  IF IsCongested(p_free) THEN RAdd(base, Tenths(TIME_PENALTY))
                 ELSE base

(***************************************************************************)
(* The data source: a missing/unreadable path, or a CSV with its header    *)
(* columns, its rows, and the columns whose cells hold non-numeric text.   *)
(***************************************************************************)
AllColumns ==
    {"day_type", "hour", "total_capacity", "latitude", "longitude", "occupancy_rate"}

NumericSourceColumns == AllColumns \ {"day_type"}

Record(day_type, hour, total_capacity, latitude, longitude, occupancy_rate) ==
    [day_type |-> day_type, hour |-> hour, total_capacity |-> total_capacity,
     latitude |-> latitude, longitude |-> longitude,
     occupancy_rate |-> occupancy_rate]

Csv(columns, rows, nonnumeric) ==
    [kind |-> "csv", columns |-> columns,
     rows |-> [i \in DOMAIN rows |-> [c \in columns |-> rows[i][c]]],
     nonnumeric |-> nonnumeric]

Missing == [kind |-> "missing", columns |-> {}, rows |-> <<>>, nonnumeric |-> {}]

\* Coordinates in units of 1e-3 degree.
Lat1 == 48140
Lon1 == 11541
Lat2 == Lat1 + 60

Rows1 ==
    <<Record("WD", 8, 100, Lat1, Lon1, 9000),
      Record("SA", 18, 100, Lat1, Lon1, 4000)>>

Rows2 ==
    <<Record("WD", 8, 100, Lat1, Lon1, 9995),
      Record("SA", 18, 100, Lat1, Lon1, 5000),
      Record("WD", 18, 250, Lat2, Lon1, 7000)>>

GoodSources == {Csv(AllColumns, Rows1, {}), Csv(AllColumns, Rows2, {})}

BadSources ==
    {Missing, Csv(AllColumns, <<>>, {})}
    \cup {Csv(AllColumns \ {c}, Rows1, {}) : c \in AllColumns}
    \cup {Csv(AllColumns, Rows1, {c}) : c \in NumericSourceColumns}

Sources == GoodSources \cup BadSources

(***************************************************************************)
(* ParkingCapacityEstimator.__init__ and _load_and_train, lines 14-64, as  *)
(* steps on the instance `self`.  df, columns, nonnumeric, X and y are the *)
(* locals of _load_and_train; pc is its position.                          *)
(***************************************************************************)
None == [state |-> "None"]

Unconstructed ==
    [pc |-> "new", csv_path |-> "", model |-> None, preprocessor |-> None,
     columns |-> {}, nonnumeric |-> {}, df |-> <<>>, X |-> <<>>, y |-> <<>>,
     exc |-> ""]

DropLocals(self) ==
    [self EXCEPT !.columns = {}, !.nonnumeric = {}, !.df = <<>>, !.X = <<>>,
                 !.y = <<>>]

\* The exception swallowed inside _load_and_train: __init__ returns.
Raise_swallowed(self, name) == [self EXCEPT !.pc = "return", !.exc = name]

\* An exception leaves __init__: no instance reaches the caller.
Raise(self, name) == [DropLocals(self) EXCEPT !.pc = "raised", !.exc = name]

\* Lines 15-17.
init_fields(self, csv_path) ==
    [self EXCEPT !.pc = "read_csv", !.csv_path = csv_path, !.model = None,
                 !.preprocessor = None]

\* Line 22: pd.read_csv.
read_csv(self, src) ==
    IF src.kind = "missing" THEN Raise(self, "FileNotFoundError")
    ELSE [self EXCEPT !.pc = "engineer", !.df = src.rows,
                      !.columns = src.columns, !.nonnumeric = src.nonnumeric]

\* Lines 27-28.
engineer(self) ==
    IF "hour" \notin self.columns THEN Raise(self, "KeyError")
    ELSE IF "hour" \in self.nonnumeric /\ self.df # <<>>
    THEN Raise(self, "TypeError")
    ELSE [self EXCEPT !.pc = "select",
                      !.df = [i \in DOMAIN self.df |-> TrainEngineer(self.df[i])],
                      !.columns = self.columns \cup {"hour_sin", "hour_cos"}]

\* Lines 39-40.
select(self) ==
    IF ~(Range(features) \subseteq self.columns) \/ target \notin self.columns
    THEN Raise(self, "KeyError")
    ELSE [self EXCEPT !.pc = "build",
                      !.X = [i \in DOMAIN self.df |-> TrainSelect(self.df[i])],
                      !.y = [i \in DOMAIN self.df |-> self.df[i][target]]]

\* Lines 42-63: the unfitted transformer and pipeline are assigned to self.
build(e, self) ==
    [self EXCEPT !.pc = "fit_preprocessor",
                 !.preprocessor = [state |-> "unfitted",
                                   handle_unknown |-> HANDLE_UNKNOWN,
                                   vocabulary |-> <<>>],
                 !.model = [state |-> "unfitted",
                            regressor |-> [n_estimators |-> N_ESTIMATORS,
                                           max_depth |-> MAX_DEPTH,
                                           random_state |-> random_state(e)]]]

\* Line 64, first pipeline step: the transformer is fitted on X.
fit_preprocessor(self) ==
    IF self.X = <<>> THEN Raise(self, "ValueError")
    ELSE [self EXCEPT !.pc = "fit_regressor",
                      !.preprocessor.state = "fitted",
                      !.preprocessor.vocabulary = FitVocabulary(self.X)]

\* Line 64, last pipeline step: the forest is fitted on the encoded matrix.
fit_regressor(self) ==
    IF self.nonnumeric \cap (Range(NumericColumns) \cup {target}) # {}
    THEN Raise(self, "ValueError")
    ELSE [self EXCEPT
            !.pc = "return",
            !.model = [state |-> "fitted",
                       regressor |->
                         ForestFit(self.model.regressor.random_state,
                                   [i \in DOMAIN self.X |->
                                      Transform(self.preprocessor, self.X[i]).v],
                                   self.y)]]

\* __init__ returns (line 19 done): the locals are gone.
finish(self) == [DropLocals(self) EXCEPT !.pc = "constructed"]

step(e, self, src) ==
    CASE self.pc = "new" -> init_fields(self, e)
      [] self.pc = "read_csv" -> read_csv(self, src)
      [] self.pc = "engineer" -> engineer(self)
      [] self.pc = "select" -> select(self)
      [] self.pc = "build" -> build(e, self)
      [] self.pc = "fit_preprocessor" -> fit_preprocessor(self)
      [] self.pc = "fit_regressor" -> fit_regressor(self)
      [] self.pc = "return" -> finish(self)
      [] OTHER -> self

\* ParkingCapacityEstimator(csv_path), run to its end.
RECURSIVE run_init(_, _, _)
run_init(e, self, src) ==
    IF self.pc \in {"constructed", "raised"} THEN self
    ELSE run_init(e, step(e, self, src), src)

(***************************************************************************)
(* predict and predict_search_time as functions of the instance.           *)
(***************************************************************************)
Query(day_type, hour, total_capacity, latitude, longitude) ==
    [day_type |-> day_type, hour |-> hour, total_capacity |-> total_capacity,
     latitude |-> latitude, longitude |-> longitude]

\* Lines 66-83: [ok, v].
predict(self, q) ==
    PipelinePredict(self, QueryFrame(q.day_type, q.hour, q.total_capacity,
                                     q.latitude, q.longitude))

\* Lines 85-98: a number or an exception.
predict_search_time(self, q) ==
    LET r == predict(self, q)
    IN  IF r.ok THEN total_time(PFree(r.v), q.total_capacity) ELSE r.v

(***************************************************************************)
(* State.  source[e]: the content behind the path estimator e is given.    *)
(* est[e]: the instance.  handle: the instances whose constructor has      *)
(* returned to the caller.  thr[t]: the call thread t is executing, with   *)
(* its locals.  last: a completed call the caller has kept the result of.  *)
(***************************************************************************)
Estimators == {"a", "b"}
Threads == {"t1", "t2"}
Kinds == {"predict", "predict_search_time"}

Queries ==
    {Query("WD", 8, 100, Lat1, Lon1),
     Query("SA", 18, 100, Lat1, Lon1),
     Query("HOL", 8, 100, Lat1, Lon1)}

Idle ==
    [pc |-> "idle", est |-> "", kind |-> "", q |-> Query("", 0, 0, 0, 0),
     X_new |-> QueryFrame("", 0, 0, 0, 0), Xt |-> <<>>, p_occupied |-> 0,
     p_free |-> 0, divided |-> FALSE, ret |-> Rat(0, 1)]

NoLast == [Idle EXCEPT !.pc = "none"]

Init ==
    /\ source \in [Estimators -> Sources]
    /\ est = [e \in Estimators |-> Unconstructed]
    /\ handle = {}
    /\ thr = [t \in Threads |-> Idle]
    /\ last = NoLast

\* Instance e becomes `self`; the caller holds the instance once __init__
\* has returned.
Advance(e, self) ==
    /\ est' = [est EXCEPT ![e] = self]
    /\ handle' = IF self.pc = "constructed" THEN handle \cup {e} ELSE handle
    /\ UNCHANGED <<source, thr, last>>

\* ParkingCapacityEstimator(csv_path), step by step.
ConstructInit(e) ==
    /\ est[e].pc = "new"
    /\ Advance(e, init_fields(est[e], e))

ConstructReadCsv(e) ==
    /\ est[e].pc = "read_csv"
    /\ Advance(e, read_csv(est[e], source[e]))

ConstructEngineer(e) ==
    /\ est[e].pc = "engineer"
    /\ Advance(e, engineer(est[e]))

ConstructSelect(e) ==
    /\ est[e].pc = "select"
    /\ Advance(e, select(est[e]))

ConstructBuild(e) ==
    /\ est[e].pc = "build"
    /\ Advance(e, build(e, est[e]))

ConstructFitPreprocessor(e) ==
    /\ est[e].pc = "fit_preprocessor"
    /\ Advance(e, fit_preprocessor(est[e]))

ConstructFitRegressor(e) ==
    /\ est[e].pc = "fit_regressor"
    /\ Advance(e, fit_regressor(est[e]))

ConstructReturn(e) ==
    /\ est[e].pc = "return"
    /\ Advance(e, finish(est[e]))

\* The encoder learning an unseen category from the query.
SelfAfterPredict_learns(self, X_new) ==
    [self EXCEPT !.preprocessor.vocabulary =
        IF X_new.day_type \in Range(@) THEN @ ELSE Append(@, X_new.day_type)]

\* What predict leaves of self: it assigns no attribute.
SelfAfterPredict(self, X_new) == self

\* One frame shared by all calls: the other thread's row, once it has one.
XNewOf_shared(t) ==
    LET others == {u \in Threads \ {t} :
                     thr[u].pc \in {"transform", "regress", "heuristic", "done"}}
    IN  IF others = {} THEN thr[t].X_new
        ELSE thr[CHOOSE u \in others : TRUE].X_new

\* The frame thread t passes to the pipeline: its own local X_new.
XNewOf(t) == thr[t].X_new

\* A thread calls predict or predict_search_time on an instance it holds.
Call(t, e, kind, q) ==
    /\ thr[t].pc = "idle"
    /\ e \in handle
    /\ thr' = [thr EXCEPT ![t] = [Idle EXCEPT !.pc = "frame", !.est = e,
                                             !.kind = kind, !.q = q]]
    /\ UNCHANGED <<source, est, handle, last>>

\* Lines 67-81.
BuildFrame(t) ==
    /\ thr[t].pc = "frame"
    /\ LET q == thr[t].q
       IN  thr' = [thr EXCEPT ![t].pc = "transform",
                              ![t].X_new = QueryFrame(q.day_type, q.hour,
                                                      q.total_capacity,
                                                      q.latitude, q.longitude)]
    /\ UNCHANGED <<source, est, handle, last>>

\* Line 83, first pipeline step.
PipelineTransform(t) ==
    /\ thr[t].pc = "transform"
    /\ LET self == est[thr[t].est]
           fitted == self.model.state = "fitted" /\ self.preprocessor.state = "fitted"
           r == IF fitted THEN Transform(self.preprocessor, XNewOf(t))
                ELSE PipelinePredict(self, XNewOf(t))
       IN  /\ thr' = [thr EXCEPT ![t] =
                        IF r.ok THEN [@ EXCEPT !.pc = "regress", !.Xt = r.v]
                        ELSE [@ EXCEPT !.pc = "raised", !.ret = r.v]]
           /\ est' = [est EXCEPT ![thr[t].est] = SelfAfterPredict(@, XNewOf(t))]
    /\ UNCHANGED <<source, handle, last>>

\* Line 83, last pipeline step, and the return of predict.
PipelineRegress(t) ==
    /\ thr[t].pc = "regress"
    /\ LET p == ForestPredict(est[thr[t].est].model.regressor, thr[t].Xt)
       IN  thr' = [thr EXCEPT ![t] =
                     IF thr[t].kind = "predict"
                     THEN [@ EXCEPT !.pc = "done", !.p_occupied = p, !.ret = Prob(p)]
                     ELSE [@ EXCEPT !.pc = "heuristic", !.p_occupied = p]]
    /\ UNCHANGED <<source, est, handle, last>>

\* Lines 88-98.
SearchTime(t) ==
    /\ thr[t].pc = "heuristic"
    /\ LET p_free == PFree(thr[t].p_occupied)
           time == total_time(p_free, thr[t].q.total_capacity)
       IN  thr' = [thr EXCEPT ![t].pc = IF IsExc(time) THEN "raised" ELSE "done",
                              ![t].p_free = p_free,
                              ![t].divided = ~IsFullLot(p_free),
                              ![t].ret = time]
    /\ UNCHANGED <<source, est, handle, last>>

\* The call is over and its locals are gone.
Return(t) ==
    /\ thr[t].pc \in {"done", "raised"}
    /\ thr' = [thr EXCEPT ![t] = Idle]
    /\ UNCHANGED <<source, est, handle, last>>

\* The call is over and the caller keeps what it returned.
ReturnKeep(t) ==
    /\ thr[t].pc \in {"done", "raised"}
    /\ thr' = [thr EXCEPT ![t] = Idle]
    /\ last' = thr[t]
    /\ UNCHANGED <<source, est, handle>>

ThreadStep(t, kinds, queries) ==
    \/ \E e \in Estimators, kind \in kinds, q \in queries : Call(t, e, kind, q)
    \/ BuildFrame(t)
    \/ PipelineTransform(t)
    \/ PipelineRegress(t)
    \/ SearchTime(t)
    \/ Return(t)

(***************************************************************************)
(* Spec: construction step by step from any data source, and concurrent    *)
(* calls on the instances constructed.                                     *)
(***************************************************************************)
Next ==
    \/ \E e \in Estimators :
          \/ ConstructInit(e)
          \/ ConstructReadCsv(e)
          \/ ConstructEngineer(e)
          \/ ConstructSelect(e)
          \/ ConstructBuild(e)
          \/ ConstructFitPreprocessor(e)
          \/ ConstructFitRegressor(e)
          \/ ConstructReturn(e)
    \/ \E t \in Threads : ThreadStep(t, Kinds, Queries)

Spec == Init /\ [][Next]_vars

(***************************************************************************)
(* SpecSeq: two instances constructed from well-formed sources, queried by *)
(* one caller that keeps results.                                          *)
(***************************************************************************)
Caller == "t1"

InitConstructed(sources) ==
    /\ source \in [Estimators -> sources]
    /\ est = [e \in Estimators |-> run_init(e, Unconstructed, source[e])]
    /\ handle = {e \in Estimators : est[e].pc = "constructed"}
    /\ thr = [t \in Threads |-> Idle]
    /\ last = NoLast

InitSeq == InitConstructed(GoodSources)

NextSeq ==
    \/ ThreadStep(Caller, Kinds, Queries)
    \/ ReturnKeep(Caller)

SpecSeq == InitSeq /\ [][NextSeq]_vars

(***************************************************************************)
(* SpecHeur: predict_search_time over a grid of model outputs.  A forest   *)
(* fitted on one record predicts that record's occupancy_rate, so the      *)
(* sources are the one-record files whose target runs over the grid: the   *)
(* values within Window of the thresholds of p_free, and values far from   *)
(* them on both sides (p_occupied beyond [0, 1] included).                 *)
(***************************************************************************)
Window == 2

PFreeGrid ==
    UNION {(c - Window)..(c + Window) : c \in {0, FULL_LOT_P_FREE, CONGESTED_P_FREE}}
    \cup {5, 300, 5000, ONE, 15000, -100, -2000}

HeurSources ==
    {Csv(AllColumns, <<Record("WD", 18, 100, Lat1, Lon1, ONE - pf)>>, {}) :
        pf \in PFreeGrid}

HeurQueries == {Query("WD", 18, c, Lat1, Lon1) : c \in {1, 100, 600}}

InitHeur == InitConstructed(HeurSources)

NextHeur ==
    \/ ThreadStep(Caller, {"predict_search_time"}, HeurQueries)
    \/ ReturnKeep(Caller)

SpecHeur == InitHeur /\ [][NextHeur]_vars

(***************************************************************************)
(* Properties.                                                             *)
(***************************************************************************)
SearchDone(c) == c.pc = "done" /\ c.kind = "predict_search_time"

\* The calls whose results are in the state: the caller's and the kept one.
Calls == {thr[Caller], last}

\* C1: for every occupancy p_occupied that predict returned and every
\* total_capacity, predict_search_time returns exactly
\* expected_spots * 1.2 + 2.5, plus 10 if and only if p_free < 0.05, where
\* p_free = 1 - p_occupied and expected_spots is total_capacity * 2 when
\* p_free < 0.001 and 1 / p_free otherwise (p_free = 0.5 gives 4.9,
\* p_free = 0.0005 with capacity 100 gives 252.5, p_free = 0.03 gives 52.5).
\* The times are compared in tenths, cross-multiplied.
C1_SearchTimeFormula ==
    \A c \in Calls :
        SearchDone(c) =>
            LET pf == 10000 - c.p_occupied
                cap == c.q.total_capacity
                pen == IF pf < 500 THEN 100 ELSE 0
            IN  /\ c.p_free = pf
                /\ IF pf < 10
                   THEN c.ret.n * 10 = (12 * (cap * 2) + 25 + pen) * c.ret.d
                   ELSE c.ret.n * (10 * pf) = (12 * 10000 + (25 + pen) * pf) * c.ret.d
                /\ (pf = 5000 => c.ret.n * 10 = 49 * c.ret.d)
                /\ (pf = 5 /\ cap = 100 => c.ret.n * 10 = 2525 * c.ret.d)
                /\ (pf = 300 => c.ret.n * 10 = 525 * c.ret.d)

\* C1 witness: the caller kept the result of the p_free = 0.5 case and has
\* now been returned 252.5 for p_free = 0.0005 with capacity 100.
C1_Witness ==
    /\ SearchDone(last) /\ last.p_occupied = 5000
    /\ SearchDone(thr[Caller]) /\ thr[Caller].p_occupied = 9995
    /\ thr[Caller].q.total_capacity = 100
    /\ thr[Caller].ret = [n |-> 505, d |-> 2]

\* C2 (as claimed): with the query held fixed, for any two predicted
\* occupancies p1 <= p2 the search time returned for p2 is never smaller
\* than the one returned for p1, the thresholds p_free = 0.001 and
\* p_free = 0.05 included.
C2_Monotone ==
    (SearchDone(last) /\ SearchDone(thr[Caller])
     /\ last.q = thr[Caller].q
     /\ last.p_occupied <= thr[Caller].p_occupied)
        => RLeq(last.ret, thr[Caller].ret)

\* C3: predict_search_time never fails with a division error: the division
\* 1 / p_free is evaluated only when p_free >= 0.001, and every other
\* output (p_occupied = 1 exactly, p_occupied > 1) takes the
\* total_capacity * 2 fallback.
C3_NoDivisionError ==
    \A c \in Calls :
        (c.kind = "predict_search_time" /\ c.pc \in {"done", "raised"}) =>
            /\ c.pc = "done"
            /\ ~IsExc(c.ret)
            /\ (c.divided => c.p_free >= 10)
            /\ (~c.divided =>
                   c.ret.n * 10 = (12 * (c.q.total_capacity * 2) + 125) * c.ret.d)
            /\ (c.p_free < 10 => ~c.divided)

\* C3 witness: p_occupied = 1 exactly went through the fallback after a
\* call with p_occupied > 1 did.
C3_Witness ==
    /\ SearchDone(thr[Caller]) /\ thr[Caller].p_occupied = 10000
    /\ ~thr[Caller].divided
    /\ SearchDone(last) /\ last.p_occupied > 10000 /\ ~last.divided

Fitted(self) == self.model.state = "fitted" /\ self.preprocessor.state = "fitted"

\* The vocabulary the training file of e holds, in sorted order.
TrainedVocabulary(e) ==
    SelectSeq(<<"HOL", "SA", "SU", "WD">>,
              LAMBDA d : \E i \in DOMAIN source[e].rows : source[e].rows[i].day_type = d)

Unseen(c) ==
    \A i \in DOMAIN source[c.est].rows : source[c.est].rows[i].day_type # c.q.day_type

\* C4: for a day_type outside the vocabulary fitted at training time predict
\* does not raise: the category is encoded as an all-zero indicator block, the
\* numeric features pass through unchanged, a single number is returned, and
\* the fitted vocabulary is not extended by the query.
C4_UnseenCategory ==
    \A t \in Threads :
        LET c == thr[t]
            voc == est[c.est].preprocessor.vocabulary
        IN  (c.pc \notin {"idle", "frame", "transform"} /\ Unseen(c)) =>
                /\ c.pc # "raised"
                /\ voc = TrainedVocabulary(c.est)
                /\ Len(c.Xt) = Len(voc) + 5
                /\ \A i \in 1..Len(voc) : c.Xt[i] = 0
                /\ SubSeq(c.Xt, Len(voc) + 1, Len(voc) + 5)
                     = <<c.q.total_capacity, c.q.latitude, c.q.longitude,
                         c.X_new.hour_sin, c.X_new.hour_cos>>
                /\ (c.pc = "done" => ~IsExc(c.ret) /\ c.ret.d > 0)

\* C4 witness: predict has returned for the day_type "HOL", which no training
\* file holds.
C4_Witness ==
    \E t \in Threads :
        /\ thr[t].pc = "done" /\ thr[t].kind = "predict"
        /\ thr[t].q.day_type = "HOL" /\ Unseen(thr[t])

\* The four ways a data source is bad: missing or unreadable, no rows, a
\* required column absent, non-numeric text in a numeric column.
BadSource(src) ==
    \/ src.kind = "missing"
    \/ src.rows = <<>>
    \/ \E c \in {"day_type", "hour", "total_capacity", "latitude", "longitude",
                 "occupancy_rate"} : c \notin src.columns
    \/ \E c \in {"hour", "total_capacity", "latitude", "longitude",
                 "occupancy_rate"} : c \in src.nonnumeric

\* C5: if the data source is missing or unreadable, has no rows, lacks a
\* required column or has non-numeric values in a numeric column, the
\* construction fails and no instance is returned to the caller; predict and
\* predict_search_time only ever run on an instance whose model is completely
\* fitted, never on model = None or a half-trained pipeline.
C5_FailFast ==
    /\ \A e \in Estimators :
          BadSource(source[e]) => e \notin handle /\ est[e].pc # "constructed"
    /\ \A e \in handle : est[e].pc = "constructed" /\ Fitted(est[e])
    /\ \A t \in Threads :
          thr[t].pc # "idle" => thr[t].est \in handle /\ Fitted(est[thr[t].est])

\* C5 witness: one construction has raised leaving a half-trained pipeline
\* (transformer fitted, forest not) while a call on the other instance is over.
C5_Witness ==
    \E e \in Estimators, t \in Threads :
        /\ BadSource(source[e]) /\ est[e].pc = "raised"
        /\ est[e].preprocessor.state = "fitted" /\ est[e].model.state = "unfitted"
        /\ thr[t].pc = "done" /\ thr[t].est # e

\* C6: the fitted model is created once, during construction, and from then
\* on no step of any call changes the instance's model, preprocessor (with its
\* vocabulary) or csv_path.
C6_ModelImmutable ==
    [][\A e \in Estimators :
          est[e].model.state = "fitted" =>
              /\ est'[e].model = est[e].model
              /\ est'[e].preprocessor = est[e].preprocessor
              /\ est'[e].csv_path = est[e].csv_path]_vars

\* C6 witness: both kinds of call are over on one constructed instance.
C6_Witness ==
    \E e \in handle :
        /\ thr["t1"].pc = "done" /\ thr["t1"].est = e /\ thr["t1"].kind = "predict"
        /\ thr["t2"].pc = "done" /\ thr["t2"].est = e
        /\ thr["t2"].kind = "predict_search_time"

\* C7: under any interleaving of predict and predict_search_time calls of
\* several threads on one instance, each call returns the value it returns
\* when executed alone.
C7_ConcurrentCalls ==
    \A t \in Threads :
        LET c == thr[t]
            alone == predict(est[c.est], c.q)
        IN  /\ c.pc = "raised" => ~alone.ok
            /\ c.pc = "done" =>
                  /\ alone.ok
                  /\ IF c.kind = "predict" THEN c.ret = Prob(alone.v)
                     ELSE c.ret = predict_search_time(est[c.est], c.q)

\* C7 witness: a call is over while another thread's call, with another
\* query on the same instance, is inside the pipeline.
C7_Witness ==
    \E t, u \in Threads :
        /\ t # u /\ thr[t].pc = "done" /\ thr[u].pc \in {"transform", "regress"}
        /\ thr[t].est = thr[u].est /\ thr[t].q # thr[u].q

\* C8: two estimators constructed from the same data source (300 trees,
\* depth 12, seed 42) return identical values from predict and from
\* predict_search_time for every query, and a query repeated on one estimator
\* returns the same value whatever was queried in between.
C8_Deterministic ==
    /\ \A e \in handle :
          /\ est[e].model.regressor.n_estimators = 300
          /\ est[e].model.regressor.max_depth = 12
    /\ LET c == thr[Caller]
       IN  (c.pc \in {"done", "raised"} /\ last.pc \in {"done", "raised"}
            /\ source[c.est] = source[last.est]
            /\ c.kind = last.kind /\ c.q = last.q)
               => c.pc = last.pc /\ c.ret = last.ret

\* C8 witness: the same query answered by two instances built from one
\* three-record file.
C8_Witness ==
    LET c == thr[Caller]
    IN  /\ c.pc = "done" /\ last.pc = "done" /\ c.est # last.est
        /\ source[c.est] = source[last.est] /\ Len(source[c.est].rows) = 3
        /\ c.kind = last.kind /\ c.q = last.q

SixColumns ==
    {"day_type", "total_capacity", "latitude", "longitude", "hour_sin", "hour_cos"}

Training(self) == self.pc \in {"build", "fit_preprocessor", "fit_regressor", "return"}

FrameBuilt(c) == c.pc \in {"transform", "regress", "heuristic", "done"}

\* C9: predict applies to a query the feature transform _load_and_train
\* applies to a training record: both give a row with exactly the columns
\* day_type, total_capacity, latitude, longitude, hour_sin, hour_cos, day_type
\* raw, the three numeric attributes unchanged, hour_sin and hour_cos from
\* the same period-24 transform, and no raw hour column.
C9_SameTransform ==
    /\ \A e \in Estimators :
          Training(est[e]) =>
              \A i \in DOMAIN est[e].X :
                  LET x == est[e].X[i]
                      r == est[e].df[i]
                  IN  /\ DOMAIN x = SixColumns
                      /\ x.day_type = r.day_type
                      /\ x.total_capacity = r.total_capacity
                      /\ x.latitude = r.latitude
                      /\ x.longitude = r.longitude
    /\ \A t \in Threads :
          FrameBuilt(thr[t]) =>
              LET x == thr[t].X_new
                  q == thr[t].q
              IN  /\ DOMAIN x = SixColumns
                  /\ x.day_type = q.day_type
                  /\ x.total_capacity = q.total_capacity
                  /\ x.latitude = q.latitude
                  /\ x.longitude = q.longitude
    /\ \A e \in Estimators, t \in Threads :
          (Training(est[e]) /\ FrameBuilt(thr[t])) =>
              \A i \in DOMAIN est[e].X :
                  LET r == est[e].df[i]
                      q == thr[t].q
                  IN  (/\ r.day_type = q.day_type /\ r.hour = q.hour
                       /\ r.total_capacity = q.total_capacity
                       /\ r.latitude = q.latitude /\ r.longitude = q.longitude)
                          => est[e].X[i] = thr[t].X_new

\* C9 witness: a query's frame is built while the other instance is in
\* training on a record with the query's five attributes.
C9_Witness ==
    \E e \in Estimators, t \in Threads :
        /\ Training(est[e]) /\ FrameBuilt(thr[t]) /\ thr[t].est # e
        /\ \E i \in DOMAIN est[e].X :
              /\ est[e].df[i].day_type = thr[t].q.day_type
              /\ est[e].df[i].hour = thr[t].q.hour
              /\ est[e].df[i].total_capacity = thr[t].q.total_capacity
              /\ est[e].X[i] = thr[t].X_new

====
